---- MODULE Spec2Model ----
(***************************************************************************)
(* Model of seller-apis: seller.py (Ozon) and market.py (Yandex Market).   *)
(* Both scripts enumerate the marketplace catalog page by page, reconcile  *)
(* it with the feed of watch remnants, and submit stock and price updates  *)
(* in chunks.                                                              *)
(*                                                                         *)
(* Strings whose characters matter (quantity and price labels) are         *)
(* sequences of one-character strings; skus are compared only for          *)
(* equality and stay plain strings.                                        *)
(***************************************************************************)
EXTENDS Integers, Sequences, FiniteSets, TLC

\* ------------------------------------------------------------------ bounds
\* longest catalog listing held by a marketplace
MaxCatalog == 3
\* longest feed (rows of the remnants file)
MaxFeed == 2
\* largest chunk ceiling tried by the dispatch loops
MaxCeiling == 2
\* longest list handed to divide on its own
MaxLen == 4
\* longest label handed to the normalisers on their own
MaxLabel == 3
\* the clock of datetime.utcnow() runs over 0..MaxClock
MaxClock == 1

Skus == {"A", "B", "C"}

Min(a, b) == IF a < b THEN a ELSE b

\* ------------------------------------------------------------- characters
Digits == {"0", "1", "2", "3", "4", "5", "6", "7", "8", "9"}

DigitVal(c) ==
  CASE c = "0" -> 0 [] c = "1" -> 1 [] c = "2" -> 2 [] c = "3" -> 3
    [] c = "4" -> 4 [] c = "5" -> 5 [] c = "6" -> 6 [] c = "7" -> 7
    [] c = "8" -> 8 [] c = "9" -> 9

\* all sequences over S of length at most n
SeqsUpTo(S, n) == UNION {[1..k -> S] : k \in 0..n}

\* the sequences of SeqsUpTo(S, n) that repeat no element
DistinctSeqs(S, n) ==
  {s \in SeqsUpTo(S, n) : \A i, j \in 1..Len(s) : i # j => s[i] # s[j]}

\* -------------------------------------------------------------- python int
\* Value of a digit string, left to right.
RECURSIVE digits_value(_, _)
digits_value(s, acc) ==
  IF s = <<>> THEN acc ELSE digits_value(Tail(s), acc * 10 + DigitVal(Head(s)))

\* int(s) of a string over digits, "-" and other characters: an optional
\* sign followed by at least one digit, anything else raises ValueError.
py_int(s) ==
  LET neg  == s # <<>> /\ Head(s) = "-"
      body == IF neg THEN Tail(s) ELSE s
  IN IF body # <<>> /\ \A i \in 1..Len(body) : body[i] \in Digits
       THEN [ok |-> TRUE,
             val |-> IF neg THEN 0 - digits_value(body, 0) ELSE digits_value(body, 0)]
       ELSE [ok |-> FALSE, val |-> 0]

\* --------------------------------------------------------- price_conversion
\* price.split(".")[0]: the text before the first "."
RECURSIVE split_dot_head(_)
split_dot_head(s) ==
  IF s = <<>> \/ Head(s) = "." THEN <<>> ELSE <<Head(s)>> \o split_dot_head(Tail(s))

\* re.sub("[^0-9]", "", ...): the digits that are left, as a string
price_conversion(price) ==
  SelectSeq(split_dot_head(price), LAMBDA c : c \in Digits)

\* ------------------------------------------------------------------ lists
\* x in lst
In(x, lst) == \E i \in 1..Len(lst) : lst[i] = x

\* list_remove with a fault: the matched sku stays in the list
list_remove_kept(lst, x) == lst

\* list_remove with a fault: the last entry is dropped, whatever it is
list_remove_last(lst, x) == SubSeq(lst, 1, Len(lst) - 1)

\* lst.remove(x): drops the first occurrence of x
RECURSIVE list_remove(_, _)
list_remove(lst, x) ==
  IF lst = <<>> THEN <<>>
  ELSE IF Head(lst) = x THEN Tail(lst)
  ELSE <<Head(lst)>> \o list_remove(Tail(lst), x)

\* ----------------------------------------------------------------- divide
\* for i in range(0, len(lst), n): yield lst[i: i + n]      (n >= 1)
RECURSIVE divide_from(_, _, _)
divide_from(lst, n, i) ==
  IF i >= Len(lst) THEN <<>>
  ELSE <<SubSeq(lst, i + 1, Min(i + n, Len(lst)))>> \o divide_from(lst, n, i + n)

\* divide with a fault: a short last chunk is dropped
divide_full_chunks(lst, n) ==
  divide_from(SubSeq(lst, 1, (Len(lst) \div n) * n), n, 0)

\* list(divide(lst, n))
divide(lst, n) == divide_from(lst, n, 0)

\* ----------------------------------------------------------- create_stocks
\* quantity with a fault: the "1" sentinel is taken at face value
quantity_face_value(count) ==
  IF count = <<">", "1", "0">> THEN [ok |-> TRUE, val |-> 100] ELSE py_int(count)

\* The quantity rule of both create_stocks: ">10" gives 100, "1" gives 0,
\* anything else goes through int().
quantity(count) ==
  IF count = <<">", "1", "0">> THEN [ok |-> TRUE, val |-> 100]
  ELSE IF count = <<"1">> THEN [ok |-> TRUE, val |-> 0]
  ELSE py_int(count)

\* One stock update: seller.py's {"offer_id", "stock"}, market.py's
\* {"sku", "warehouseId", "items": [{"count", "type", "updatedAt"}]}.
stock_update(shop, sku, n, warehouse_id, date) ==
  IF shop = "ozon"
    THEN [sku |-> sku, count |-> n, warehouseId |-> "", updatedAt |-> 0]
    ELSE [sku |-> sku, count |-> n, warehouseId |-> warehouse_id, updatedAt |-> date]

\* The loop over the feed: a matched row is converted, appended, and its
\* sku removed from the caller's list; int() raising ends the call there.
RECURSIVE stocks_feed_loop(_, _, _, _, _, _)
stocks_feed_loop(shop, feed, offer_ids, stocks, warehouse_id, date) ==
  IF feed = <<>> THEN [raised |-> FALSE, stocks |-> stocks, offer_ids |-> offer_ids]
  ELSE LET watch == Head(feed)
           q == quantity(watch.qty)
       IN IF In(watch.sku, offer_ids)
            THEN IF ~q.ok
                   THEN [raised |-> TRUE, stocks |-> stocks, offer_ids |-> offer_ids]
                   ELSE stocks_feed_loop(shop, Tail(feed),
                          list_remove(offer_ids, watch.sku),
                          Append(stocks,
                                 stock_update(shop, watch.sku, q.val, warehouse_id, date)),
                          warehouse_id, date)
            ELSE stocks_feed_loop(shop, Tail(feed), offer_ids, stocks, warehouse_id, date)

\* The loop over what is left of offer_ids: one zero update each.
zero_stocks(shop, offer_ids, warehouse_id, date) ==
  [i \in 1..Len(offer_ids) |-> stock_update(shop, offer_ids[i], 0, warehouse_id, date)]

\* create_stocks(watch_remnants, offer_ids[, warehouse_id]): the result, whether
\* it raised, and the caller's list as the call leaves it.
create_stocks(shop, watch_remnants, offer_ids, warehouse_id, date) ==
  LET r == stocks_feed_loop(shop, watch_remnants, offer_ids, <<>>, warehouse_id, date)
  IN IF r.raised THEN r
     ELSE [raised |-> FALSE,
           stocks |-> r.stocks \o zero_stocks(shop, r.offer_ids, warehouse_id, date),
           offer_ids |-> r.offer_ids]

\* ----------------------------------------------------------- create_prices
\* One price update: seller.py keeps price_conversion's string, market.py
\* takes int() of it.
price_update(shop, sku, p) ==
  IF shop = "ozon" THEN [sku |-> sku, price |-> p, value |-> 0]
  ELSE [sku |-> sku, price |-> <<>>, value |-> py_int(p).val]

\* create_prices(watch_remnants, offer_ids): a row whose sku is in
\* offer_ids gives one price update; market.py's int("") raises.
RECURSIVE create_prices(_, _, _)
create_prices(shop, feed, offer_ids) ==
  IF feed = <<>> THEN [raised |-> FALSE, prices |-> <<>>]
  ELSE LET watch == Head(feed)
           p == price_conversion(watch.price)
           rest == create_prices(shop, Tail(feed), offer_ids)
       IN IF ~In(watch.sku, offer_ids) THEN rest
          ELSE IF shop = "yandex" /\ ~py_int(p).ok
            THEN [raised |-> TRUE, prices |-> <<>>]
          ELSE IF rest.raised THEN rest
          ELSE [raised |-> FALSE,
                prices |-> <<price_update(shop, watch.sku, p)>> \o rest.prices]

\* ================================================================== state
VARIABLES
  \* ---- the run of one entry point
  prog,            \* the entry point that runs
  shop,            \* "ozon" (seller.py) or "yandex" (market.py)
  pc,              \* position in the entry point
  outcome,         \* "running", "done", "caught" (main's except), "raised"
  campaign,        \* the pass: "OZON", "FBS" or "DBS"
  ostatki,         \* the remnants file download_stock will return
  watch_remnants,  \* the feed held by the entry point
  listing,         \* the marketplace's catalog, per campaign
  served,          \* how many entries of it this enumeration was sent
  page,            \* get_offer_ids' last_id / page
  product_list,    \* get_offer_ids' product_list
  offer_ids,       \* the caller's list of skus
  stocks,          \* the entry point's stocks
  prices,          \* the entry point's prices
  chunks,          \* list(divide(...)) of the running loop
  k,               \* index of the next chunk of that loop
  trace,           \* what the run did so far, in order
  stock_limit,     \* ceiling of the stock loop
  price_limit,     \* ceiling of the price loop
  utcnow,          \* datetime.utcnow(), in seconds
  \* ---- two calls of the reconciler in a row
  rpc,             \* 0, 1 or 2 calls made
  catalog,         \* the list as get_offer_ids returned it
  run1,            \* the first call and its result
  run2,            \* the second call and its result
  \* ---- divide on its own
  lst,
  n,
  dpc

vars == <<prog, shop, pc, outcome, campaign, ostatki, watch_remnants, listing,
          served, page, product_list, offer_ids, stocks, prices, chunks, k,
          trace, stock_limit, price_limit, utcnow, rpc, catalog, run1, run2,
          lst, n, dpc>>

mainOnly == <<prog, pc, outcome, campaign, ostatki, listing, served, page,
              product_list, stocks, prices, k, trace, stock_limit, price_limit>>
reconOnly == <<rpc, catalog, run1, run2>>
divideOnly == <<lst, n, dpc>>

NoRun == [fn |-> "none", list |-> "none", raised |-> FALSE, out |-> <<>>]

MainIdle ==
  /\ prog = "none" /\ pc = "exit" /\ outcome = "done" /\ campaign = "none"
  /\ ostatki = <<>> /\ listing = <<>> /\ served = 0 /\ page = ""
  /\ product_list = <<>> /\ stocks = <<>> /\ prices = <<>> /\ k = 0
  /\ trace = <<>> /\ stock_limit = 1 /\ price_limit = 1

ReconIdle == rpc = 2 /\ catalog = <<>> /\ run1 = NoRun /\ run2 = NoRun

DivideIdle == lst = <<>> /\ n = 1 /\ dpc = "idle"

\* ========================================== the reconciler, called twice
\* The feed rows and catalogs the reconciler is tried on.
QtyLabels ==
  {<<"1">>, <<"5">>, <<"a", "b", "c">>}
PriceLabels ==
  {<<"1", "0", "0", ".", "0", "0">>, <<"p", ".">>}
FeedRows == [sku : Skus, qty : QtyLabels, price : PriceLabels]
Shops == {"ozon", "yandex"}
Warehouse == "W"

ReconInit ==
  /\ MainIdle /\ DivideIdle
  /\ shop \in Shops
  /\ watch_remnants \in SeqsUpTo(FeedRows, MaxFeed)
  /\ catalog \in DistinctSeqs(Skus, MaxCatalog)
  /\ offer_ids = catalog
  /\ chunks = <<>>
  /\ utcnow = 0
  /\ rpc = 0 /\ run1 = NoRun /\ run2 = NoRun

\* the list a call is given: the caller's list object as it is now, or a
\* new list equal to the enumerated catalog
GivenList(which) == IF which = "same" THEN offer_ids ELSE catalog

\* stocks = create_stocks(watch_remnants, lst): the result, and the list
\* object changed in place when it is the caller's
CallCreateStocks(which, run) ==
  LET r == create_stocks(shop, watch_remnants, GivenList(which), Warehouse, utcnow)
  IN /\ run = [fn |-> "create_stocks", list |-> which, raised |-> r.raised,
               out |-> IF r.raised THEN <<>> ELSE r.stocks]
     /\ offer_ids' = IF which = "same" THEN r.offer_ids ELSE offer_ids

\* prices = create_prices(watch_remnants, lst): the list is only read
CallCreatePrices(which, run) ==
  LET r == create_prices(shop, watch_remnants, GivenList(which))
  IN /\ run = [fn |-> "create_prices", list |-> which, raised |-> r.raised,
               out |-> r.prices]
     /\ offer_ids' = offer_ids

FirstCreateStocks ==
  /\ rpc = 0
  /\ CallCreateStocks("same", run1')
  /\ rpc' = 1
  /\ UNCHANGED <<mainOnly, divideOnly, shop, watch_remnants, chunks, utcnow,
                 catalog, run2>>

FirstCreatePrices ==
  /\ rpc = 0
  /\ CallCreatePrices("same", run1')
  /\ rpc' = 1
  /\ UNCHANGED <<mainOnly, divideOnly, shop, watch_remnants, chunks, utcnow,
                 catalog, run2>>

SecondCreateStocks ==
  /\ rpc = 1 /\ ~run1.raised
  /\ \E which \in {"same", "fresh"} : CallCreateStocks(which, run2')
  /\ rpc' = 2
  /\ UNCHANGED <<mainOnly, divideOnly, shop, watch_remnants, chunks, utcnow,
                 catalog, run1>>

SecondCreatePrices ==
  /\ rpc = 1 /\ ~run1.raised
  /\ \E which \in {"same", "fresh"} : CallCreatePrices(which, run2')
  /\ rpc' = 2
  /\ UNCHANGED <<mainOnly, divideOnly, shop, watch_remnants, chunks, utcnow,
                 catalog, run1>>

\* a second of wall-clock time passes between the two calls (only
\* market.py's create_stocks reads the clock)
ReconTick ==
  /\ rpc = 1 /\ shop = "yandex" /\ utcnow < MaxClock
  /\ utcnow' = utcnow + 1
  /\ UNCHANGED <<mainOnly, divideOnly, reconOnly, shop, watch_remnants,
                 offer_ids, chunks>>

ReconNext ==
  \/ FirstCreateStocks
  \/ FirstCreatePrices
  \/ SecondCreateStocks
  \/ SecondCreatePrices
  \/ ReconTick

SpecRecon == ReconInit /\ [][ReconNext]_vars

\* ================================= the reconciler on one row, every label
\* The characters labels are built from: digits, the sign, the ">" of the
\* ">10" sentinel, the "." price_conversion splits at, and letters.
Alphabet == {"0", "1", "7", ">", "-", ".", "a", "b", "c"}

\* the price labels of price_conversion's docstring and of the feed:
\* "5'990.00 rub.", "1234" and "rub." (the currency word in Latin letters)
ExampleLabels ==
  {<<"5", "'", "9", "9", "0", ".", "0", "0", " ", "r", "u", "b", ".">>,
   <<"1", "2", "3", "4">>,
   <<"r", "u", "b", ".">>}

Labels == SeqsUpTo(Alphabet, MaxLabel) \cup ExampleLabels

\* one row for sku "A", listed in the catalog, with one field drawn freely
NormInit ==
  /\ MainIdle /\ DivideIdle
  /\ shop \in Shops
  /\ \E l \in Labels :
       \/ watch_remnants = <<[sku |-> "A", qty |-> l, price |-> <<"5">>]>>
       \/ watch_remnants = <<[sku |-> "A", qty |-> <<"5">>, price |-> l]>>
  /\ catalog = <<"A">>
  /\ offer_ids = catalog
  /\ chunks = <<>>
  /\ utcnow = 0
  /\ rpc = 0 /\ run1 = NoRun /\ run2 = NoRun

SpecNorm == NormInit /\ [][ReconNext]_vars

\* ====================================================== divide on its own
DivideInit ==
  /\ MainIdle /\ ReconIdle
  /\ shop = "ozon" /\ watch_remnants = <<>> /\ offer_ids = <<>> /\ utcnow = 0
  /\ lst \in SeqsUpTo(Skus, MaxLen)
  /\ n \in 1..(MaxLen + 1)
  /\ chunks = <<>>
  /\ dpc = "ready"

\* chunks = list(divide(lst, n))
DivideCall ==
  /\ dpc = "ready"
  /\ chunks' = divide(lst, n)
  /\ dpc' = "done"
  /\ UNCHANGED <<mainOnly, reconOnly, shop, watch_remnants, offer_ids, utcnow,
                 lst, n>>

DivideNext == DivideCall

SpecDivide == DivideInit /\ [][DivideNext]_vars

\* ======================================================= the entry points
\* seller.py: main, upload_stocks, upload_prices; market.py: the same three.
SellerProgs == {"seller_main", "seller_upload_stocks", "seller_upload_prices"}
MarketProgs == {"market_main", "market_upload_stocks", "market_upload_prices"}
Progs == SellerProgs \cup MarketProgs

\* the campaigns an entry point enumerates, in order
Passes(p) ==
  IF p \in SellerProgs THEN <<"OZON">>
  ELSE IF p = "market_main" THEN <<"FBS", "DBS">>
  ELSE <<"FBS">>

HasStockLoop(p) == p \notin {"seller_upload_prices", "market_upload_prices"}
HasPriceLoop(p) ==
  p \in {"seller_main", "seller_upload_prices", "market_upload_prices"}

\* next-page tokens a listing response may carry ("" ends market.py's loop)
Tokens == {"", "t1", "t2"}

MainSkus == {"A", "B"}
MainRows ==
  {[sku |-> s, qty |-> q[1], price |-> q[2]] :
     s \in MainSkus,
     q \in {<< <<"5">>, <<"1", "0", "0", ".", "0", "0">> >>,
            << <<"a", "b", "c">>, <<"1", "0", "0", ".", "0", "0">> >>,
            << <<"5">>, <<"p", ".">> >>}}

\* warehouse_fbs_id / warehouse_dbs_id
WarehouseOf(c) == IF c = "FBS" THEN "WF" ELSE IF c = "DBS" THEN "WD" ELSE ""

Init ==
  /\ ReconIdle /\ DivideIdle
  /\ prog \in Progs
  /\ shop = IF prog \in SellerProgs THEN "ozon" ELSE "yandex"
  /\ ostatki \in SeqsUpTo(MainRows, MaxFeed)
  \* the mains download the feed, the upload_* functions are handed it
  /\ watch_remnants = IF prog \in {"seller_main", "market_main"} THEN <<>> ELSE ostatki
  /\ listing \in [{Passes(prog)[i] : i \in 1..Len(Passes(prog))}
                    -> DistinctSeqs(MainSkus, MaxCatalog)]
  /\ stock_limit \in IF HasStockLoop(prog) THEN 1..MaxCeiling ELSE {1}
  /\ price_limit \in IF HasPriceLoop(prog) THEN 1..MaxCeiling ELSE {1}
  /\ campaign = Passes(prog)[1]
  /\ pc = IF prog = "market_main" THEN "download_stock" ELSE "get_offer_ids"
  /\ outcome = "running"
  /\ served = 0 /\ page = "" /\ product_list = <<>>
  /\ offer_ids = <<>> /\ stocks = <<>> /\ prices = <<>>
  /\ chunks = <<>> /\ k = 0
  /\ trace = <<>>
  /\ utcnow = 0

\* one entry of trace
Event(op, ok, body) == [campaign |-> campaign, op |-> op, ok |-> ok, body |-> body]

\* where the entry point goes after a step that went through
After(step) ==
  CASE step = "download_stock" ->
         IF prog = "seller_main" THEN "create_stocks" ELSE "get_offer_ids"
    [] step = "get_offer_ids" ->
         IF prog = "seller_main" THEN "download_stock"
         ELSE IF HasStockLoop(prog) THEN "create_stocks" ELSE "create_prices"
    [] step = "create_stocks" -> "update_stocks"
    [] step = "update_stocks" ->
         IF prog = "seller_main" THEN "create_prices"
         ELSE IF prog = "market_main" THEN "upload_prices" ELSE "exit"
    [] step = "create_prices" -> "update_price"
    [] step = "update_price" -> "exit"
    [] step = "upload_prices" ->
         IF campaign = "FBS" THEN "get_offer_ids" ELSE "exit"

\* an exception leaves the entry point: the mains' try catches it (market.py
\* calls download_stock before its try), the upload_* functions let it through
Raise(ev) ==
  /\ trace' = Append(trace, ev)
  /\ pc' = "exit"
  /\ outcome' = IF prog = "seller_main" \/ (prog = "market_main" /\ ev.op # "download_stock")
                  THEN "caught" ELSE "raised"

\* the step went through
Proceed(ev, step) ==
  /\ trace' = Append(trace, ev)
  /\ pc' = After(step)
  /\ outcome' = IF After(step) = "exit" THEN "done" ELSE "running"

\* ---- download_stock
DownloadStock ==
  /\ pc = "download_stock"
  /\ watch_remnants' = ostatki
  /\ Proceed(Event("download_stock", TRUE, <<>>), "download_stock")
  /\ UNCHANGED <<prog, shop, campaign, ostatki, listing, served, page,
                 product_list, offer_ids, stocks, prices, chunks, k,
                 stock_limit, price_limit, utcnow, reconOnly, divideOnly>>

DownloadStockFails ==
  /\ pc = "download_stock"
  /\ Raise(Event("download_stock", FALSE, <<>>))
  /\ UNCHANGED <<prog, shop, campaign, ostatki, watch_remnants, listing, served,
                 page, product_list, offer_ids, stocks, prices, chunks, k,
                 stock_limit, price_limit, utcnow, reconOnly, divideOnly>>

\* ---- get_offer_ids
\* get_offer_ids returns: offer_ids is the list of skus collected
ReturnOfferIds(list) ==
  /\ offer_ids' = list
  /\ Proceed(Event("get_offer_ids", TRUE, list), "get_offer_ids")

\* one turn of seller.py's loop: a page of items, a total and a last_id
\* come back; the loop ends when total equals the number collected
OzonGetProductList ==
  /\ pc = "get_offer_ids" /\ shop = "ozon"
  /\ \E cnt \in 0..(Len(listing[campaign]) - served),
        total \in 0..(MaxCatalog + 1), last_id \in Tokens :
       LET items == SubSeq(listing[campaign], served + 1, served + cnt)
           collected == product_list \o items
       IN /\ served' = served + cnt
          /\ product_list' = collected
          /\ page' = last_id
          /\ IF total = Len(collected)
               THEN ReturnOfferIds(collected)
               ELSE UNCHANGED <<offer_ids, trace, pc, outcome>>
  /\ UNCHANGED <<prog, shop, campaign, ostatki, watch_remnants, listing, stocks,
                 prices, chunks, k, stock_limit, price_limit, utcnow,
                 reconOnly, divideOnly>>

\* one turn of market.py's loop: a page of entries and a nextPageToken
\* come back; the loop ends when the token is empty
YandexGetProductList ==
  /\ pc = "get_offer_ids" /\ shop = "yandex"
  /\ \E cnt \in 0..(Len(listing[campaign]) - served), nextPageToken \in Tokens :
       LET items == SubSeq(listing[campaign], served + 1, served + cnt)
           collected == product_list \o items
       IN /\ served' = served + cnt
          /\ product_list' = collected
          /\ page' = nextPageToken
          /\ IF nextPageToken = ""
               THEN ReturnOfferIds(collected)
               ELSE UNCHANGED <<offer_ids, trace, pc, outcome>>
  /\ UNCHANGED <<prog, shop, campaign, ostatki, watch_remnants, listing, stocks,
                 prices, chunks, k, stock_limit, price_limit, utcnow,
                 reconOnly, divideOnly>>

\* GetProductListFails with a fault: the failure is swallowed and the skus
\* collected so far are returned
GetProductListFailsKeepsPartial ==
  /\ pc = "get_offer_ids"
  /\ offer_ids' = product_list
  /\ Proceed(Event("get_offer_ids", FALSE, product_list), "get_offer_ids")
  /\ UNCHANGED <<prog, shop, campaign, ostatki, watch_remnants, listing, served,
                 page, product_list, stocks, prices, chunks, k,
                 stock_limit, price_limit, utcnow, reconOnly, divideOnly>>

\* the page request fails (timeout, connection error, raise_for_status)
GetProductListFails ==
  /\ pc = "get_offer_ids"
  /\ Raise(Event("get_offer_ids", FALSE, product_list))
  /\ UNCHANGED <<prog, shop, campaign, ostatki, watch_remnants, listing, served,
                 page, product_list, offer_ids, stocks, prices, chunks, k,
                 stock_limit, price_limit, utcnow, reconOnly, divideOnly>>

\* ---- stocks = create_stocks(...); for some_stock in list(divide(stocks, ..))
CreateStocks ==
  /\ pc = "create_stocks"
  /\ LET r == create_stocks(shop, watch_remnants, offer_ids,
                            WarehouseOf(campaign), utcnow)
     IN /\ offer_ids' = r.offer_ids
        /\ IF r.raised
             THEN /\ Raise(Event("create_stocks", FALSE, offer_ids))
                  /\ UNCHANGED <<stocks, chunks, k>>
             ELSE /\ stocks' = r.stocks
                  /\ chunks' = divide(r.stocks, stock_limit)
                  /\ k' = 1
                  /\ Proceed(Event("create_stocks", TRUE, offer_ids), "create_stocks")
  /\ UNCHANGED <<prog, shop, campaign, ostatki, watch_remnants, listing, served,
                 page, product_list, prices, stock_limit, price_limit, utcnow,
                 reconOnly, divideOnly>>

\* update_stocks(some_stock, ...) of the next chunk goes through
UpdateStocks ==
  /\ pc = "update_stocks" /\ k <= Len(chunks)
  /\ trace' = Append(trace, Event("update_stocks", TRUE, chunks[k]))
  /\ k' = k + 1
  /\ UNCHANGED <<prog, shop, pc, outcome, campaign, ostatki, watch_remnants,
                 listing, served, page, product_list, offer_ids, stocks, prices,
                 chunks, stock_limit, price_limit, utcnow, reconOnly, divideOnly>>

\* UpdateStocksFails with a fault: the loop goes on to the next chunk
UpdateStocksFailsGoesOn ==
  /\ pc = "update_stocks" /\ k <= Len(chunks)
  /\ trace' = Append(trace, Event("update_stocks", FALSE, chunks[k]))
  /\ k' = k + 1
  /\ UNCHANGED <<prog, shop, pc, outcome, campaign, ostatki, watch_remnants,
                 listing, served, page, product_list, offer_ids, stocks, prices,
                 chunks, stock_limit, price_limit, utcnow, reconOnly, divideOnly>>

\* update_stocks of the next chunk raises
UpdateStocksFails ==
  /\ pc = "update_stocks" /\ k <= Len(chunks)
  /\ Raise(Event("update_stocks", FALSE, chunks[k]))
  /\ UNCHANGED <<prog, shop, campaign, ostatki, watch_remnants, listing, served,
                 page, product_list, offer_ids, stocks, prices, chunks, k,
                 stock_limit, price_limit, utcnow, reconOnly, divideOnly>>

\* the stock loop is over
StocksDispatched ==
  /\ pc = "update_stocks" /\ k > Len(chunks)
  /\ pc' = After("update_stocks")
  /\ outcome' = IF After("update_stocks") = "exit" THEN "done" ELSE "running"
  /\ UNCHANGED <<prog, shop, campaign, ostatki, watch_remnants, listing, served,
                 page, product_list, offer_ids, stocks, prices, chunks, k, trace,
                 stock_limit, price_limit, utcnow, reconOnly, divideOnly>>

\* ---- prices = create_prices(...); for some_price in list(divide(prices, ..))
\* seller.py's main hands create_prices the list create_stocks has emptied of
\* the matched skus; upload_prices hands it the list it has just enumerated
CreatePrices ==
  /\ pc = "create_prices"
  /\ LET r == create_prices(shop, watch_remnants, offer_ids)
     IN IF r.raised
          THEN /\ Raise(Event("create_prices", FALSE, offer_ids))
               /\ UNCHANGED <<prices, chunks, k>>
          ELSE /\ prices' = r.prices
               /\ chunks' = divide(r.prices, price_limit)
               /\ k' = 1
               /\ Proceed(Event("create_prices", TRUE, offer_ids), "create_prices")
  /\ UNCHANGED <<prog, shop, campaign, ostatki, watch_remnants, listing, served,
                 page, product_list, offer_ids, stocks, stock_limit, price_limit,
                 utcnow, reconOnly, divideOnly>>

UpdatePrice ==
  /\ pc = "update_price" /\ k <= Len(chunks)
  /\ trace' = Append(trace, Event("update_price", TRUE, chunks[k]))
  /\ k' = k + 1
  /\ UNCHANGED <<prog, shop, pc, outcome, campaign, ostatki, watch_remnants,
                 listing, served, page, product_list, offer_ids, stocks, prices,
                 chunks, stock_limit, price_limit, utcnow, reconOnly, divideOnly>>

UpdatePriceFails ==
  /\ pc = "update_price" /\ k <= Len(chunks)
  /\ Raise(Event("update_price", FALSE, chunks[k]))
  /\ UNCHANGED <<prog, shop, campaign, ostatki, watch_remnants, listing, served,
                 page, product_list, offer_ids, stocks, prices, chunks, k,
                 stock_limit, price_limit, utcnow, reconOnly, divideOnly>>

PricesDispatched ==
  /\ pc = "update_price" /\ k > Len(chunks)
  /\ pc' = After("update_price")
  /\ outcome' = "done"
  /\ UNCHANGED <<prog, shop, campaign, ostatki, watch_remnants, listing, served,
                 page, product_list, offer_ids, stocks, prices, chunks, k, trace,
                 stock_limit, price_limit, utcnow, reconOnly, divideOnly>>

\* ---- market.py's main: upload_prices(watch_remnants, campaign, token)
\* upload_prices is an async def and main does not await it: the call
\* builds a coroutine object and runs none of its body. After the FBS pass
\* main goes on to get_offer_ids of the DBS campaign.
UploadPricesNotAwaited ==
  /\ pc = "upload_prices"
  /\ Proceed(Event("upload_prices", TRUE, <<>>), "upload_prices")
  /\ IF campaign = "FBS"
       THEN /\ campaign' = "DBS"
            /\ served' = 0 /\ page' = "" /\ product_list' = <<>>
       ELSE UNCHANGED <<campaign, served, page, product_list>>
  /\ UNCHANGED <<prog, shop, ostatki, watch_remnants, listing, offer_ids, stocks,
                 prices, chunks, k, stock_limit, price_limit, utcnow,
                 reconOnly, divideOnly>>

\* a second passes before market.py's create_stocks reads the clock (nothing
\* else reads it, so the time that passes elsewhere is left out)
Tick ==
  /\ pc = "create_stocks" /\ shop = "yandex" /\ utcnow < MaxClock
  /\ utcnow' = utcnow + 1
  /\ UNCHANGED <<mainOnly, reconOnly, divideOnly, shop, watch_remnants,
                 offer_ids, chunks>>

Enumerate ==
  \/ OzonGetProductList
  \/ YandexGetProductList

Next ==
  \/ DownloadStock
  \/ DownloadStockFails
  \/ Enumerate
  \/ GetProductListFails
  \/ CreateStocks
  \/ UpdateStocks
  \/ UpdateStocksFails
  \/ StocksDispatched
  \/ CreatePrices
  \/ UpdatePrice
  \/ UpdatePriceFails
  \/ PricesDispatched
  \/ UploadPricesNotAwaited
  \/ Tick

Spec == Init /\ [][Next]_vars

\* the enumeration loop keeps running: as long as page requests are answered,
\* get_offer_ids goes on to its next turn
FairSpec == Spec /\ WF_vars(Enumerate)

\* ================================================================= claims
\* out holds one update for every entry of list, and nothing else
OneUpdatePerSku(out, list) ==
  /\ Len(out) = Len(list)
  /\ \A i \in 1..Len(list) :
       Cardinality({j \in 1..Len(out) : out[j].sku = list[i]}) = 1

\* C1: whenever create_stocks returns, for a catalog of distinct skus and
\* any feed (rows repeating a sku, rows for skus not listed), it returns
\* exactly one stock update per catalog sku: |C| updates, none twice, none
\* omitted.
C1_OneStockUpdatePerCatalogSku ==
  /\ (run1.fn = "create_stocks" /\ ~run1.raised)
       => OneUpdatePerSku(run1.out, catalog)
  /\ (run2.fn = "create_stocks" /\ run2.list = "fresh" /\ ~run2.raised)
       => OneUpdatePerSku(run2.out, catalog)

\* a feed that names a listed sku twice went through create_stocks
C1_Witness ==
  /\ run1.fn = "create_stocks" /\ ~run1.raised
  /\ Len(catalog) = 3 /\ Len(watch_remnants) = 2
  /\ watch_remnants[1].sku = watch_remnants[2].sku
  /\ In(watch_remnants[1].sku, catalog)

\* the chunks, joined in order
RECURSIVE Flatten(_)
Flatten(cs) == IF cs = <<>> THEN <<>> ELSE Head(cs) \o Flatten(Tail(cs))

\* C6: divide(lst, B) with B > 0 yields ceil(L/B) chunks, all of B elements
\* except the last, which has 1..B, and the chunks joined in order are lst.
C6_DivideChunks ==
  dpc = "done" =>
    /\ Len(chunks) = (Len(lst) + n - 1) \div n
    /\ \A i \in 1..Len(chunks) :
         IF i < Len(chunks) THEN Len(chunks[i]) = n
         ELSE Len(chunks[i]) >= 1 /\ Len(chunks[i]) <= n
    /\ Flatten(chunks) = lst

\* a list was cut into several chunks with a shorter last one
C6_Witness ==
  /\ dpc = "done" /\ Len(chunks) >= 2
  /\ Len(chunks[Len(chunks)]) < n

\* C9: a second run of create_stocks or create_prices with the same
\* catalog and feed, the list object of the first run included, gives the
\* first run's result.
C9_Idempotent ==
  (rpc = 2 /\ run2.fn = run1.fn) =>
    (run2.raised = run1.raised /\ run2.out = run1.out)

\* an optional "-" and then digits only, at least one
IsDecimal(l) ==
  LET body == IF l # <<>> /\ l[1] = "-" THEN Tail(l) ELSE l
  IN body # <<>> /\ \A i \in 1..Len(body) : body[i] \in Digits

RECURSIVE Pow10(_)
Pow10(e) == IF e = 0 THEN 1 ELSE 10 * Pow10(e - 1)

RECURSIVE PlaceSum(_, _)
PlaceSum(body, i) ==
  IF i > Len(body) THEN 0
  ELSE DigitVal(body[i]) * Pow10(Len(body) - i) + PlaceSum(body, i + 1)

\* the integer a decimal label writes
DecimalValue(l) ==
  IF l[1] = "-" THEN 0 - PlaceSum(Tail(l), 1) ELSE PlaceSum(l, 1)

\* the one stock update of the one matched row has this count
CountIs(run, c) ==
  ~run.raised /\ Len(run.out) = 1 /\ run.out[1].sku = "A" /\ run.out[1].count = c

\* C10: for a matched row create_stocks turns ">10" into 100, "1" into 0,
\* any other decimal integer label into its value ("7" into 7), and fails on
\* every other label ("abc") with no stock update at all.
C10_QuantityRule ==
  run1.fn = "create_stocks" =>
    LET l == watch_remnants[1].qty
    IN /\ l = <<">", "1", "0">> => CountIs(run1, 100)
       /\ l = <<"1">> => CountIs(run1, 0)
       /\ l = <<"7">> => CountIs(run1, 7)
       /\ l = <<"a", "b", "c">> => (run1.raised /\ run1.out = <<>>)
       /\ (l # <<"1">> /\ IsDecimal(l)) => CountIs(run1, DecimalValue(l))
       /\ (l # <<">", "1", "0">> /\ ~IsDecimal(l))
            => (run1.raised /\ run1.out = <<>>)

\* the row with the label "abc" was matched and create_stocks failed on it
C10_Witness ==
  /\ run1.fn = "create_stocks"
  /\ watch_remnants[1].qty = <<"a", "b", "c">>
  /\ run1.raised

\* the characters of a label before its first "."
BeforeDot(l) ==
  IF \E i \in 1..Len(l) : l[i] = "."
  THEN SubSeq(l, 1, (CHOOSE i \in 1..Len(l) :
                       l[i] = "." /\ \A j \in 1..(i - 1) : l[j] # ".") - 1)
  ELSE l

\* the digits a label has before its first ".", in order
DigitsBeforeDot(l) == SelectSeq(BeforeDot(l), LAMBDA c : c \in Digits)

\* the one price update of the one matched row carries this integer: as
\* the digit string that writes it (seller.py) or as the number (market.py)
PriceIs(run, ds) ==
  /\ ~run.raised /\ Len(run.out) = 1 /\ run.out[1].sku = "A"
  /\ IF shop = "ozon" THEN run.out[1].price = ds
     ELSE run.out[1].value = PlaceSum(ds, 1)

\* C11: for a matched row whose price label has no digit before its first
\* "." ("rub.") create_prices of either marketplace fails and emits no price
\* update; for a label with digits the price is the integer those digits
\* write ("5'990.00 rub." gives 5990, "1234" gives 1234).
C11_PriceRule ==
  run1.fn = "create_prices" =>
    LET l == watch_remnants[1].price
    IN /\ DigitsBeforeDot(l) = <<>> => (run1.raised /\ run1.out = <<>>)
       /\ DigitsBeforeDot(l) # <<>> => PriceIs(run1, DigitsBeforeDot(l))
       /\ l = <<"1", "2", "3", "4">> => PriceIs(run1, <<"1", "2", "3", "4">>)
       /\ Len(l) = 13 => PriceIs(run1, <<"5", "9", "9", "0">>)

\* the (sku, count) pairs of a stock update sequence
SkuCounts(out) == [i \in 1..Len(out) |-> <<out[i].sku, out[i].count>>]

\* the (sku, price) pairs of a price update sequence, the price as the
\* integer it writes
SkuPrices(out) ==
  [i \in 1..Len(out) |->
     <<out[i].sku,
       IF shop = "ozon" THEN PlaceSum(out[i].price, 1) ELSE out[i].value>>]

\* the count the quantity rule gives a label that is ">10" or a decimal
QuantityOf(l) ==
  IF l = <<">", "1", "0">> THEN 100
  ELSE IF l = <<"1">> THEN 0
  ELSE DecimalValue(l)

\* the feed rows that name a catalog sku no earlier row names, in feed order
FeedDerived ==
  LET idx == SelectSeq([i \in 1..Len(watch_remnants) |-> i],
                       LAMBDA i : /\ In(watch_remnants[i].sku, catalog)
                                  /\ \A j \in 1..(i - 1) :
                                       watch_remnants[j].sku # watch_remnants[i].sku)
  IN [m \in 1..Len(idx) |->
        <<watch_remnants[idx[m]].sku, QuantityOf(watch_remnants[idx[m]].qty)>>]

\* the catalog skus no feed row names, in catalog order, each with count 0
Decommissions ==
  LET left == SelectSeq(catalog, LAMBDA s :
                \A i \in 1..Len(watch_remnants) : watch_remnants[i].sku # s)
  IN [m \in 1..Len(left) |-> <<left[m], 0>>]

ScenarioFeed ==
  <<[sku |-> "A", qty |-> <<"5">>, price |-> <<"1", "0", "0", ".", "0", "0">>]>>

\* C12: create_stocks returns the feed-derived stock updates in feed order
\* followed by the zero-count updates of the unmatched catalog skus in
\* catalog order; for catalog [A, B, C] and feed [(A, "5", "100.00")] the
\* pass (create_stocks, then create_prices on the same list, as main does)
\* yields stock updates [(A,5),(B,0),(C,0)] and price updates [(A,100)].
C12_StockOrderAndScenario ==
  /\ (run1.fn = "create_stocks" /\ ~run1.raised) =>
        SkuCounts(run1.out) = FeedDerived \o Decommissions
  /\ (catalog = <<"A", "B", "C">> /\ watch_remnants = ScenarioFeed
        /\ run1.fn = "create_stocks") =>
        /\ SkuCounts(run1.out) = <<<<"A", 5>>, <<"B", 0>>, <<"C", 0>>>>
        /\ (run2.fn = "create_prices" /\ run2.list = "same") =>
             SkuPrices(run2.out) = <<<<"A", 100>>>>

\* the catalog skus some feed row names: the skus create_stocks matches
ClaimedSkus ==
  {catalog[i] : i \in 1..Len(catalog)}
    \cap {watch_remnants[i].sku : i \in 1..Len(watch_remnants)}

\* the catalog without the claimed skus, in catalog order
Unclaimed == SelectSeq(catalog, LAMBDA s : s \notin ClaimedSkus)

\* create_stocks was called on the caller's list and returned
StocksReturnedOnList ==
  \/ run1.fn = "create_stocks" /\ ~run1.raised
  \/ run2.fn = "create_stocks" /\ run2.list = "same" /\ ~run2.raised

\* create_stocks was called on the caller's list at all
StocksCalledOnList ==
  \/ run1.fn = "create_stocks"
  \/ run2.fn = "create_stocks" /\ run2.list = "same"

\* C13: when create_stocks returns, the list it was given has lost exactly
\* one entry per matched sku and holds the decommissioned skus (those of the
\* zero-count updates) in their original order; create_prices leaves the
\* list it is given as it was.
C13_CallerListEffect ==
  /\ StocksReturnedOnList =>
        /\ offer_ids = Unclaimed
        /\ Len(offer_ids) = Len(catalog) - Cardinality(ClaimedSkus)
        /\ (run1.fn = "create_stocks") =>
             LET m == Len(run1.out) - Len(offer_ids)
             IN /\ m >= 0
                /\ \A i \in 1..Len(offer_ids) :
                     /\ run1.out[m + i].sku = offer_ids[i]
                     /\ run1.out[m + i].count = 0
  /\ (rpc >= 1 /\ ~StocksCalledOnList) => offer_ids = catalog

\* create_stocks matched the middle sku of a three-sku catalog and returned
C13_Witness ==
  /\ rpc = 1 /\ run1.fn = "create_stocks" /\ ~run1.raised
  /\ catalog = <<"A", "B", "C">>
  /\ offer_ids = <<"A", "C">>

\* ------------------------------------------------- claims about the passes
\* the bodies of the events of one campaign and operation, in order
Bodies(c, op) ==
  LET sel == SelectSeq(trace, LAMBDA e : e.campaign = c /\ e.op = op)
  IN [i \in 1..Len(sel) |-> sel[i].body]

IsPrefix(a, b) == Len(a) <= Len(b) /\ \A i \in 1..Len(a) : a[i] = b[i]

\* what get_offer_ids returned for the campaign
CatalogOf(c) ==
  LET i == CHOOSE i \in 1..Len(trace) :
             trace[i].campaign = c /\ trace[i].op = "get_offer_ids" /\ trace[i].ok
  IN trace[i].body

\* every sku of the list is the sku of some feed row
AllMatched(list) ==
  \A i \in 1..Len(list) :
    \E j \in 1..Len(watch_remnants) : watch_remnants[j].sku = list[i]

Finished == pc = "exit" /\ outcome = "done"

\* C2: in every pass the number of price updates is at most the number of
\* stock updates, and equal exactly when every catalog sku was matched by a
\* feed row. Stated of the pass a main has just finished: stocks and prices
\* are what it produced for the campaign.
C2_PricesAtMostStocks ==
  (Finished /\ prog \in {"seller_main", "market_main"}) =>
    /\ Len(prices) <= Len(stocks)
    /\ (Len(prices) = Len(stocks)) <=> AllMatched(CatalogOf(campaign))

\* C3: when a step of the FBS pass of market.py's main fails, the failure is
\* caught and the DBS pass still runs.
C3_PassIsolation ==
  (prog = "market_main" /\ pc = "exit" /\ outcome = "caught"
     /\ \E i \in 1..Len(trace) : trace[i].campaign = "FBS" /\ ~trace[i].ok)
    => \E j \in 1..Len(trace) :
         trace[j].campaign = "DBS" /\ trace[j].op = "get_offer_ids"

\* the price updates of a pass: what main computed (seller.py), what the
\* pass's upload_prices is to compute from the catalog (market.py)
PassPrices(c) ==
  IF prog = "seller_main" THEN [raised |-> FALSE, prices |-> prices]
  ELSE create_prices(shop, watch_remnants, CatalogOf(c))

\* the positions in trace of the events of one campaign and operation
Positions(c, op) ==
  {i \in 1..Len(trace) : trace[i].campaign = c /\ trace[i].op = op}

\* C4: in a pass of a main in which no step fails, enumeration,
\* reconciliation, stock dispatch and price dispatch happen in this order,
\* and every chunk of the pass's price updates is submitted, after the last
\* stock chunk.
C4_StepsInOrder ==
  (Finished /\ prog \in {"seller_main", "market_main"}) =>
    \A i \in 1..Len(Passes(prog)) :
      LET c == Passes(prog)[i]
      IN /\ \A e \in Positions(c, "get_offer_ids"), r \in Positions(c, "create_stocks"),
               s \in Positions(c, "update_stocks"), p \in Positions(c, "update_price") :
              e < r /\ r < s /\ s < p
         /\ ~PassPrices(c).raised =>
              Bodies(c, "update_price") = divide(PassPrices(c).prices, price_limit)

\* C5: catalog enumeration always ends: get_offer_ids returns or fails.
C5_EnumerationTerminates ==
  [](pc = "get_offer_ids" => <>(pc # "get_offer_ids"))

\* C7: the chunks of one operation are submitted one at a time, in order,
\* each at most once, and a failed submission is the last thing the pass
\* does: the chunk is not sent again and no later chunk is sent.
C7_NoRetryNoLaterChunk ==
  /\ \A i \in 1..Len(trace) : ~trace[i].ok => i = Len(trace)
  /\ IsPrefix(Bodies(campaign, "update_stocks"), divide(stocks, stock_limit))
  /\ IsPrefix(Bodies(campaign, "update_price"), divide(prices, price_limit))

\* the first of two stock chunks was refused
C7_Witness ==
  /\ pc = "exit" /\ trace # <<>>
  /\ trace[Len(trace)].op = "update_stocks" /\ ~trace[Len(trace)].ok
  /\ k = 1 /\ Len(chunks) = 2

\* C8: when a page request of get_offer_ids fails, the pass ends there: the
\* skus collected so far are handed to neither create_stocks nor
\* create_prices and no chunk of the campaign is submitted.
C8_EnumerationAllOrNothing ==
  \A i \in 1..Len(trace) :
    (trace[i].op = "get_offer_ids" /\ ~trace[i].ok) =>
      /\ pc = "exit"
      /\ \A j \in 1..Len(trace) :
           trace[j].campaign = trace[i].campaign =>
             trace[j].op \notin {"create_stocks", "create_prices",
                                 "update_stocks", "update_price"}

\* a page request failed after part of the catalog had been collected
C8_Witness ==
  /\ trace # <<>>
  /\ trace[Len(trace)].op = "get_offer_ids" /\ ~trace[Len(trace)].ok
  /\ trace[Len(trace)].body # <<>>

====
